---- MODULE Spec2Model ----
(***************************************************************************)
(* Volitas API Gateway.                                                    *)
(*                                                                         *)
(*   src/app/middleware/auth.py : get_current_user, require_auth,          *)
(*       require_subscription_tier/tier_checker, check_widget_access       *)
(*   src/main.py                : lifespan, proxy_to_backend               *)
(*                                                                         *)
(* Two specifications share the process-wide configuration:                *)
(*   AuthSpec : one resolution of an auth dependency per step              *)
(*   Spec     : the gateway process, its shared httpx.AsyncClient and the  *)
(*              proxied requests, interleaved at their await points        *)
(***************************************************************************)
EXTENDS Integers, Sequences, FiniteSets, TLC

VARIABLES
    SUPABASE_URL,          \* auth.py:17  os.getenv("SUPABASE_URL", "")
    SUPABASE_SERVICE_KEY,  \* auth.py:18  os.getenv("SUPABASE_SERVICE_KEY", "")
    supabase,              \* auth.py:20-24  "None" or "Client"
    call,                  \* the last auth dependency resolved, with its outcome
    lifespan_state,        \* main.py:19-34  "created" | "serving" | "stopped"
    http_client,           \* app.state.http_client: "absent" or the httpx ClientState
    requests               \* per request: position in proxy_to_backend, inputs, result

vars == <<SUPABASE_URL, SUPABASE_SERVICE_KEY, supabase, call,
          lifespan_state, http_client, requests>>

----------------------------------------------------------------------------
(* Bounds *)

\* number of proxied requests the gateway receives in one run
NumRequests == 2

\* longest backend response body, in characters
MaxBodyLen == 3

----------------------------------------------------------------------------
(* Python values *)

\* dict.get(key, default)
DictGet(d, k, default) == IF k \in DOMAIN d THEN d[k] ELSE default

EmptyDict == [k \in {} |-> ""]

\* Optional[...]: None is the empty sequence, a value v is <<v>>
None == <<>>

\* Outcome of a dependency: a returned value or a raised HTTPException
Return(v, n) ==
    [kind |-> "return", value |-> v, status_code |-> 0, detail |-> <<>>,
     headers |-> {}, get_user_calls |-> n]

HTTPException(status_code, detail, headers, n) ==
    [kind |-> "raise", value |-> None, status_code |-> status_code,
     detail |-> detail, headers |-> headers, get_user_calls |-> n]

\* auth.py:28-35
AuthError(detail, n) ==
    HTTPException(401, <<detail>>, {<<"WWW-Authenticate", "Bearer">>}, n)

----------------------------------------------------------------------------
(* Inputs of the auth dependencies *)

\* tier strings a user record or a gate may carry; the last three are not
\* keys of tier_levels
TierStrings == {"free", "professional", "enterprise", "gold", "Enterprise", ""}

\* app_metadata of the provider's user record, with or without the tier key
AppMetadatas ==
    {EmptyDict} \cup {[k \in {"subscription_tier"} |-> t] : t \in TierStrings}

\* why supabase.auth.get_user raised
Reasons == {"expired", "malformed", "network"}

\* what supabase.auth.get_user(token) does
ProviderOutcomes ==
    {[kind |-> "user", app_metadata |-> m, reason |-> ""] : m \in AppMetadatas}
    \cup {[kind |-> "no_user", app_metadata |-> EmptyDict, reason |-> ""]}
    \cup {[kind |-> "exception", app_metadata |-> EmptyDict, reason |-> r] :
             r \in Reasons}

\* HTTPBearer(auto_error=False): None, or the bearer token
CredentialValues == {None, <<"tokenA">>, <<"tokenB">>}

----------------------------------------------------------------------------
(* src/app/middleware/auth.py *)

\* auth.py:20-24
supabase_init(url, key) == IF url = "" \/ key = "" THEN "None" ELSE "Client"

\* auth.py:37-46
AuthUser(user_data) ==
    [subscription_tier |->
        DictGet(user_data.app_metadata, "subscription_tier", "free")]

\* auth.py:74-81, the body of the try block; an exception of the provider call
\* is carried as the 500 it would become if nothing caught it
get_user_try(credentials, provider) ==
    IF provider.kind = "exception"
    THEN HTTPException(500, <<provider.reason>>, {}, 1)
    ELSE IF provider.kind = "no_user"
    THEN AuthError("Invalid token", 1)
    ELSE Return(<<AuthUser(provider)>>, 1)

\* mutant: the except clause lets the provider's own exception through
get_current_user_no_except(sb, credentials, provider) ==
    IF sb = "None" THEN Return(None, 0)
    ELSE IF credentials = None THEN Return(None, 0)
    ELSE get_user_try(credentials, provider)

\* mutant: the unconfigured provider handle is not checked first
get_current_user_no_config_check(sb, credentials, provider) ==
    IF credentials = None THEN Return(None, 0)
    ELSE LET r == get_user_try(credentials, provider)
         IN IF r.kind = "raise"
            THEN AuthError("Invalid authentication token", 1)
            ELSE r

\* auth.py:60-85
get_current_user(sb, credentials, provider) ==
    IF sb = "None" THEN Return(None, 0)
    ELSE IF credentials = None THEN Return(None, 0)
    ELSE LET r == get_user_try(credentials, provider)
         IN IF r.kind = "raise"
            THEN AuthError("Invalid authentication token", 1)
            ELSE r

\* mutant: a missing user is replaced by an anonymous free one instead of a 401
require_auth_anonymous(sb, credentials, provider) ==
    LET user == get_current_user(sb, credentials, provider)
    IN IF user.kind = "raise" THEN user
       ELSE IF user.value = None
       THEN Return(<<[subscription_tier |-> "free"]>>, user.get_user_calls)
       ELSE user

\* auth.py:87-96
require_auth(sb, credentials, provider) ==
    LET user == get_current_user(sb, credentials, provider)
    IN IF user.kind = "raise" THEN user
       ELSE IF user.value = None
       THEN AuthError("Authentication required", user.get_user_calls)
       ELSE user

\* auth.py:105-109, 158-162
tier_levels == [free |-> 0, professional |-> 1, enterprise |-> 2]

\* mutant: the comparison is not strict
tier_checker_le(required_tier, user) ==
    LET user_level == DictGet(tier_levels, user.value[1].subscription_tier, 0)
        required_level == DictGet(tier_levels, required_tier, 0)
    IN IF user_level <= required_level
       THEN HTTPException(403,
                <<"This feature requires ", required_tier, " subscription. ",
                  "Current tier: ", user.value[1].subscription_tier>>,
                {}, user.get_user_calls)
       ELSE user

\* auth.py:104-121, the body of tier_checker, given the resolved user
tier_checker(required_tier, user) ==
    LET user_level == DictGet(tier_levels, user.value[1].subscription_tier, 0)
        required_level == DictGet(tier_levels, required_tier, 0)
    IN IF user_level < required_level
       THEN HTTPException(403,
                <<"This feature requires ", required_tier, " subscription. ",
                  "Current tier: ", user.value[1].subscription_tier>>,
                {}, user.get_user_calls)
       ELSE user

\* auth.py:98-123, tier_checker behind Depends(require_auth)
require_subscription_tier(required_tier, sb, credentials, provider) ==
    LET user == require_auth(sb, credentials, provider)
    IN IF user.kind = "raise" THEN user ELSE tier_checker(required_tier, user)

\* auth.py:144-152
WIDGET_TIERS ==
    [line |-> "free", bar |-> "free", candlestick |-> "professional",
     treemap |-> "professional", volatilitycalendar |-> "enterprise",
     correlation |-> "enterprise", sankey |-> "enterprise"]

\* widget types a caller may ask for; the last three are not in the table
WidgetTypes == DOMAIN WIDGET_TIERS \cup {"heatmap", "Sankey", ""}

\* mutant: an unmapped widget is treated as an enterprise one
widget_required_tier_default_enterprise(widget_type) ==
    DictGet(WIDGET_TIERS, widget_type, "enterprise")

\* auth.py:156
widget_required_tier(widget_type) == DictGet(WIDGET_TIERS, widget_type, "free")

\* mutant: the denial is the one tier_checker raises
widget_access_delegating(widget_type, user) ==
    tier_checker(widget_required_tier(widget_type), user)

\* auth.py:154-173, the body of check_widget_access, given the resolved user
widget_access(widget_type, user) ==
    LET required_tier == widget_required_tier(widget_type)
        user_level == DictGet(tier_levels, user.value[1].subscription_tier, 0)
        required_level == DictGet(tier_levels, required_tier, 0)
    IN IF user_level < required_level
       THEN HTTPException(403,
                <<"Widget '", widget_type, "' requires ", required_tier,
                  " subscription">>,
                {}, user.get_user_calls)
       ELSE user

\* auth.py:154, check_widget_access behind Depends(require_auth)
check_widget_access(widget_type, sb, credentials, provider) ==
    LET user == require_auth(sb, credentials, provider)
    IN IF user.kind = "raise" THEN user ELSE widget_access(widget_type, user)

----------------------------------------------------------------------------
(* JSON text, as json.loads and json.dumps treat it *)

Quote == "\""
Backslash == "\\"

\* characters of a backend body: a digit, a letter, a blank, and the two
\* characters a JSON string must escape
Chars == {"1", "a", " ", Quote, Backslash}

Bodies == UNION {[1..n -> Chars] : n \in 0..MaxBodyLen}

Tail2(s) == SubSeq(s, 3, Len(s))

RECURSIVE LStrip(_)
LStrip(s) == IF s # <<>> /\ Head(s) = " " THEN LStrip(Tail(s)) ELSE s

RECURSIVE RStrip(_)
RStrip(s) ==
    IF s # <<>> /\ s[Len(s)] = " " THEN RStrip(SubSeq(s, 1, Len(s) - 1)) ELSE s

IsDigits(s) == s # <<>> /\ \A i \in 1..Len(s) : s[i] = "1"

RECURSIVE DigitsValue(_)
DigitsValue(s) ==
    IF s = <<>> THEN 0 ELSE 10 * DigitsValue(SubSeq(s, 1, Len(s) - 1)) + 1

DigitChars == <<"0", "1", "2", "3", "4", "5", "6", "7", "8", "9">>

RECURSIVE IntText(_)
IntText(n) ==
    IF n < 10 THEN <<DigitChars[n + 1]>>
    ELSE Append(IntText(n \div 10), DigitChars[(n % 10) + 1])

\* the characters between the quotes of a JSON string: <<>> when malformed,
\* <<decoded>> otherwise
RECURSIVE Unescape(_)
Unescape(s) ==
    IF s = <<>> THEN <<s>>
    ELSE IF Head(s) = Quote THEN <<>>
    ELSE IF Head(s) = Backslash
    THEN IF Len(s) >= 2 /\ s[2] \in {Quote, Backslash}
         THEN LET rest == Unescape(Tail2(s))
              IN IF rest = <<>> THEN <<>> ELSE <<(<<s[2]>> \o rest[1])>>
         ELSE <<>>
    ELSE LET rest == Unescape(Tail(s))
         IN IF rest = <<>> THEN <<>> ELSE <<(<<Head(s)>> \o rest[1])>>

RECURSIVE Escape(_)
Escape(s) ==
    IF s = <<>> THEN <<>>
    ELSE IF Head(s) \in {Quote, Backslash}
    THEN <<Backslash, Head(s)>> \o Escape(Tail(s))
    ELSE <<Head(s)>> \o Escape(Tail(s))

JsonNumber(n) == [type |-> "number", n |-> n, s |-> <<>>]
JsonString(s) == [type |-> "string", n |-> 0, s |-> s]

\* json.loads(text): <<>> when it raises, <<value>> otherwise
json_loads(text) ==
    LET t == RStrip(LStrip(text))
    IN IF IsDigits(t) THEN <<JsonNumber(DigitsValue(t))>>
       ELSE IF Len(t) >= 2 /\ t[1] = Quote /\ t[Len(t)] = Quote
       THEN LET u == Unescape(SubSeq(t, 2, Len(t) - 1))
            IN IF u = <<>> THEN <<>> ELSE <<JsonString(u[1])>>
       ELSE <<>>

\* json.dumps(value), as JSONResponse.render calls it
json_dumps(v) ==
    IF v.type = "number" THEN IntText(v.n)
    ELSE <<Quote>> \o Escape(v.s) \o <<Quote>>

----------------------------------------------------------------------------
(* src/main.py *)

ContentTypes == {"application/json", "application/json; charset=utf-8", "text/plain"}

\* main.py:119  content_type.startswith("application/json")
startswith_json(content_type) ==
    content_type \in {"application/json", "application/json; charset=utf-8"}

\* what the backend may answer when it is reachable
BackendResponses ==
    [status_code : {200, 404}, content_type : ContentTypes, text : Bodies]

NoBackendResponse == [status_code |-> 0, content_type |-> "", text |-> <<>>]

NoResponse == [status_code |-> 0, detail |-> "", body |-> <<>>, content_type |-> ""]

\* main.py:118-125
response_content(response) ==
    IF startswith_json(response.content_type)
    THEN LET parsed == json_loads(response.text)
         IN IF parsed = <<>> THEN JsonString(response.text) ELSE parsed[1]
    ELSE JsonString(response.text)

\* main.py:127-131
JSONResponse(content, status_code, content_type) ==
    [status_code |-> status_code, detail |-> "", body |-> json_dumps(content),
     content_type |-> content_type]

\* main.py:133-138
GatewayError(status_code, detail) ==
    [status_code |-> status_code, detail |-> detail, body |-> <<>>,
     content_type |-> "application/json"]

\* state in which the backend is for a request
BackendConditions == {"up", "refused", "dns", "timeout"}

\* conditions httpx reports as a RequestError
Unreachable == {"refused", "dns", "timeout"}

\* credential and provider verdict a proxied request arrives with
RequestAuthInputs ==
    {<<None, [kind |-> "no_user", app_metadata |-> EmptyDict, reason |-> ""]>>}
    \cup {<<(<<"tokenA">>), p>> :
            p \in {[kind |-> "user", app_metadata |-> EmptyDict, reason |-> ""],
                   [kind |-> "no_user", app_metadata |-> EmptyDict, reason |-> ""],
                   [kind |-> "exception", app_metadata |-> EmptyDict,
                    reason |-> "expired"]}}

RequestIds == 1..NumRequests

IdleRequest ==
    [pc |-> "idle", credentials |-> None,
     provider |-> [kind |-> "no_user", app_metadata |-> EmptyDict, reason |-> ""],
     backend |-> "up", outbound_calls |-> 0, caught |-> "",
     backend_response |-> NoBackendResponse, response |-> NoResponse]

NoCall ==
    [fn |-> "", credentials |-> None,
     provider |-> [kind |-> "no_user", app_metadata |-> EmptyDict, reason |-> ""],
     required_tier |-> "", widget_type |-> "", outcome |-> Return(None, 0)]

Init ==
    /\ SUPABASE_URL \in {"", "https://project.supabase.co"}
    /\ SUPABASE_SERVICE_KEY \in {"", "service-key"}
    /\ supabase = supabase_init(SUPABASE_URL, SUPABASE_SERVICE_KEY)
    /\ call = NoCall
    /\ lifespan_state = "created"
    /\ http_client = "absent"
    /\ requests = [r \in RequestIds |-> IdleRequest]

config == <<SUPABASE_URL, SUPABASE_SERVICE_KEY, supabase>>
gateway == <<lifespan_state, http_client, requests>>

----------------------------------------------------------------------------
(* AuthSpec: resolving the dependencies of auth.py *)

Resolved(fn, credentials, provider, required_tier, widget_type, outcome) ==
    /\ call' = [fn |-> fn, credentials |-> credentials, provider |-> provider,
                required_tier |-> required_tier, widget_type |-> widget_type,
                outcome |-> outcome]
    /\ UNCHANGED <<config, gateway>>

ResolveGetCurrentUser ==
    \E c \in CredentialValues, p \in ProviderOutcomes :
        Resolved("get_current_user", c, p, "", "", get_current_user(supabase, c, p))

ResolveRequireAuth ==
    \E c \in CredentialValues, p \in ProviderOutcomes :
        Resolved("require_auth", c, p, "", "", require_auth(supabase, c, p))

ResolveTierChecker ==
    \E c \in CredentialValues, p \in ProviderOutcomes, t \in TierStrings :
        Resolved("tier_checker", c, p, t, "",
                 require_subscription_tier(t, supabase, c, p))

ResolveCheckWidgetAccess ==
    \E c \in CredentialValues, p \in ProviderOutcomes, w \in WidgetTypes :
        Resolved("check_widget_access", c, p, "", w,
                 check_widget_access(w, supabase, c, p))

AuthNext ==
    \/ ResolveGetCurrentUser
    \/ ResolveRequireAuth
    \/ ResolveTierChecker
    \/ ResolveCheckWidgetAccess

AuthSpec == Init /\ [][AuthNext]_vars

----------------------------------------------------------------------------
(* Spec: the gateway process *)

\* main.py:24-30
Startup ==
    /\ lifespan_state = "created"
    /\ http_client' = "UNOPENED"
    /\ lifespan_state' = "serving"
    /\ UNCHANGED <<config, call, requests>>

\* main.py:86-106, up to the first use of the shared client
Receive(r) ==
    /\ lifespan_state = "serving"
    /\ requests[r].pc = "idle"
    /\ \E a \in RequestAuthInputs, b \in BackendConditions :
         requests' = [requests EXCEPT ![r] =
             [@ EXCEPT !.pc = "received", !.credentials = a[1],
                       !.provider = a[2], !.backend = b]]
    /\ UNCHANGED <<config, call, lifespan_state, http_client>>

\* main.py:109-115, AsyncClient.__aenter__ and the start of client.request;
\* main.py:136-138 when __aenter__ raises RuntimeError
EnterClient(r) ==
    /\ requests[r].pc = "received"
    /\ IF http_client = "UNOPENED"
       THEN /\ http_client' = "OPENED"
            /\ requests' = [requests EXCEPT ![r] =
                   [@ EXCEPT !.pc = "relayed", !.outbound_calls = @ + 1]]
       ELSE /\ http_client' = http_client
            /\ requests' = [requests EXCEPT ![r] =
                   [@ EXCEPT !.pc = "failed", !.caught = "RuntimeError",
                             !.response = GatewayError(500, "Internal gateway error")]]
    /\ UNCHANGED <<config, call, lifespan_state>>

\* main.py:109-131, the backend answers: AsyncClient.__aexit__, then the translation
BackendResponds(r) ==
    /\ requests[r].pc = "relayed"
    /\ requests[r].backend = "up"
    /\ \E resp \in BackendResponses :
         requests' = [requests EXCEPT ![r] =
             [@ EXCEPT !.pc = "completed", !.backend_response = resp,
                       !.response = JSONResponse(response_content(resp),
                                                 resp.status_code,
                                                 resp.content_type)]]
    /\ http_client' = "CLOSED"
    /\ UNCHANGED <<config, call, lifespan_state>>

\* main.py:133-135, httpx.RequestError from client.request, after __aexit__
BackendUnreachable(r) ==
    /\ requests[r].pc = "relayed"
    /\ requests[r].backend \in Unreachable
    /\ requests' = [requests EXCEPT ![r] =
           [@ EXCEPT !.pc = "failed", !.caught = "RequestError",
                     !.response = GatewayError(503, "Backend service unavailable")]]
    /\ http_client' = "CLOSED"
    /\ UNCHANGED <<config, call, lifespan_state>>

\* main.py:136-138, any other exception raised inside the with block
RelayRaises(r) ==
    /\ requests[r].pc = "relayed"
    /\ requests[r].backend = "up"
    /\ requests' = [requests EXCEPT ![r] =
           [@ EXCEPT !.pc = "failed", !.caught = "Exception",
                     !.response = GatewayError(500, "Internal gateway error")]]
    /\ http_client' = "CLOSED"
    /\ UNCHANGED <<config, call, lifespan_state>>

\* main.py:32-34, once the server has drained its requests
Shutdown ==
    /\ lifespan_state = "serving"
    /\ \A r \in RequestIds : requests[r].pc \notin {"received", "relayed"}
    /\ http_client' = "CLOSED"
    /\ lifespan_state' = "stopped"
    /\ UNCHANGED <<config, call, requests>>

Next ==
    \/ Startup
    \/ \E r \in RequestIds : Receive(r)
    \/ \E r \in RequestIds : EnterClient(r)
    \/ \E r \in RequestIds : BackendResponds(r)
    \/ \E r \in RequestIds : BackendUnreachable(r)
    \/ \E r \in RequestIds : RelayRaises(r)
    \/ Shutdown

Spec == Init /\ [][Next]_vars

----------------------------------------------------------------------------
(* Properties of the auth dependencies, under AuthSpec *)

BearerChallenge == <<"WWW-Authenticate", "Bearer">>

Is401(o) ==
    o.kind = "raise" /\ o.status_code = 401 /\ BearerChallenge \in o.headers

\* the provider is configured, a credential came in and the provider resolved it
Authenticated ==
    supabase = "Client" /\ call.credentials # None /\ call.provider.kind = "user"

\* the tier of the identity built from the provider's record
CallerTier == DictGet(call.provider.app_metadata, "subscription_tier", "free")

RecognizedTiers == {"free", "professional", "enterprise"}

\* free=0, professional=1, enterprise=2
Rank(t) ==
    CASE t = "free" -> 0 [] t = "professional" -> 1 [] t = "enterprise" -> 2

\* the same, with every other string ranked as free
RankOrFree(t) == IF t \in RecognizedTiers THEN Rank(t) ELSE 0

\* a detail names a tier or widget when it is one of its parts
Names(detail, word) == \E i \in 1..Len(detail) : detail[i] = word

FreeUser == Return(<<[subscription_tier |-> "free"]>>, 1)

\* C3: with the provider configured and a credential present, get_current_user
\* ends either in an identity (exactly when the provider resolved a user) or in
\* a 401 carrying WWW-Authenticate: Bearer (no user, or any exception, whatever
\* its reason); it never returns None there.
C3_VerifyIdentityOr401 ==
    (call.fn = "get_current_user" /\ supabase = "Client" /\ call.credentials # None)
    => \/ /\ call.provider.kind = "user"
          /\ call.outcome.kind = "return"
          /\ call.outcome.value = <<AuthUser(call.provider)>>
       \/ /\ call.provider.kind # "user"
          /\ Is401(call.outcome)

C3_Witness ==
    /\ call.fn = "get_current_user"
    /\ supabase = "Client"
    /\ call.credentials = <<"tokenA">>
    /\ call.provider.kind = "exception"
    /\ call.provider.reason = "network"
    /\ Is401(call.outcome)

\* C4: require_auth never returns without an identity; when no credential is
\* supplied or the provider is unconfigured, require_auth and the gates built on
\* it (tier_checker, check_widget_access) answer 401 with WWW-Authenticate:
\* Bearer, not 403.
C4_RequireAuth401 ==
    /\ (call.fn = "require_auth" /\ call.outcome.kind = "return")
       => Len(call.outcome.value) = 1
    /\ (/\ call.fn \in {"require_auth", "tier_checker", "check_widget_access"}
        /\ (supabase = "None" \/ call.credentials = None))
       => Is401(call.outcome)

C4_Witness ==
    /\ call.fn = "tier_checker"
    /\ call.required_tier = "enterprise"
    /\ supabase = "Client"
    /\ call.credentials = None
    /\ Is401(call.outcome)

\* C5: when the endpoint or the service credential of the provider is missing,
\* get_current_user returns None for every credential, without calling the
\* provider and without raising.
C5_UnconfiguredVerifyNone ==
    (call.fn = "get_current_user" /\ (SUPABASE_URL = "" \/ SUPABASE_SERVICE_KEY = ""))
    => /\ call.outcome.kind = "return"
       /\ call.outcome.value = None
       /\ call.outcome.get_user_calls = 0

C5_Witness ==
    /\ call.fn = "get_current_user"
    /\ SUPABASE_URL # ""
    /\ SUPABASE_SERVICE_KEY = ""
    /\ call.credentials = <<"tokenA">>
    /\ call.provider.kind = "user"
    /\ call.outcome.value = None

\* C6: tier_checker admits an identity iff rank(tier) >= rank(required) for the
\* nine combinations of free, professional, enterprise, and denies with 403
\* otherwise; an unrecognized string, as the user's tier or as the required
\* tier, gets the decision that free gets in its place.
C6_TierGate ==
    (call.fn = "tier_checker" /\ Authenticated)
    => LET admitted == call.outcome.kind = "return"
           user == Return(<<AuthUser(call.provider)>>, 1)
       IN /\ (CallerTier \in RecognizedTiers /\ call.required_tier \in RecognizedTiers)
             => (admitted <=> Rank(CallerTier) >= Rank(call.required_tier))
          /\ admitted => call.outcome.value = <<AuthUser(call.provider)>>
          /\ ~admitted => call.outcome.status_code = 403
          /\ CallerTier \notin RecognizedTiers
             => (admitted <=>
                   tier_checker(call.required_tier, FreeUser).kind = "return")
          /\ call.required_tier \notin RecognizedTiers
             => (admitted <=> tier_checker("free", user).kind = "return")

C6_Witness ==
    /\ call.fn = "tier_checker"
    /\ Authenticated
    /\ CallerTier = "gold"
    /\ call.required_tier = "professional"
    /\ call.outcome.status_code = 403

C8_WidgetGate ==
    (call.fn = "check_widget_access" /\ Authenticated)
    => LET admitted == /\ call.outcome.kind = "return"
                       /\ call.outcome.value = <<AuthUser(call.provider)>>
       IN IF call.widget_type \in DOMAIN WIDGET_TIERS
          THEN /\ admitted <=>
                    RankOrFree(CallerTier) >= Rank(WIDGET_TIERS[call.widget_type])
               /\ ~admitted => call.outcome.status_code = 403
          ELSE admitted

C8_Witness ==
    /\ call.fn = "check_widget_access"
    /\ Authenticated
    /\ call.widget_type = "heatmap"
    /\ CallerTier = "gold"
    /\ call.outcome.kind = "return"

----------------------------------------------------------------------------
(* Properties of the gateway, under Spec *)

Terminal == {"completed", "failed"}

\* C1: the shared client stays usable from process start to process stop: every
\* proxied request issues its outbound call on an open client, none is failed by
\* the client itself, and handling a request never closes the client.
C1_SharedClientUsable ==
    /\ lifespan_state = "serving" => http_client # "CLOSED"
    /\ \A r \in RequestIds :
         requests[r].pc \in Terminal
         => /\ requests[r].outbound_calls = 1
            /\ requests[r].caught # "RuntimeError"

\* C2: a request whose credential the identity provider rejects never reaches
\* the backend and ends with 401 or 403.
C2_NoRelayWithoutGate ==
    \A r \in RequestIds :
        (/\ requests[r].pc # "idle"
         /\ get_current_user(supabase, requests[r].credentials,
                             requests[r].provider).kind = "raise")
        => /\ requests[r].outbound_calls = 0
           /\ requests[r].pc \in Terminal
              => requests[r].response.status_code \in {401, 403}

\* C9: whatever was handled before or is in flight beside it, a request whose
\* backend is unreachable ends Failed with exactly 503 "Backend service
\* unavailable"; 500 "Internal gateway error" comes only from a failure that is
\* not a connection-level one; a failed request carries no backend body.
C9_Unreachable503 ==
    \A r \in RequestIds :
        requests[r].pc \in Terminal
        => /\ requests[r].backend \in Unreachable
              => /\ requests[r].pc = "failed"
                 /\ requests[r].response.status_code = 503
                 /\ requests[r].response.detail = "Backend service unavailable"
           /\ requests[r].response.status_code = 500
              => /\ requests[r].response.detail = "Internal gateway error"
                 /\ requests[r].caught # "RequestError"
           /\ requests[r].pc = "failed" => requests[r].response.body = <<>>

\* C10: the caller receives the backend's status code; for a body that is not
\* declared application/json, or is declared so and fails to parse, the caller
\* receives the backend's text unchanged; for a parseable application/json body
\* the caller receives an equal JSON value.
C10_TranslationRelaysBody ==
    \A r \in RequestIds :
        requests[r].pc = "completed"
        => LET b == requests[r].backend_response
               out == requests[r].response
               parses == startswith_json(b.content_type) /\ json_loads(b.text) # <<>>
           IN /\ out.status_code = b.status_code
              /\ parses => json_loads(out.body) = json_loads(b.text)
              /\ ~parses => out.body = b.text

====
